---- MODULE Spec2Model ----
(***************************************************************************)
(* pauza: a break reminder.  The monitor thread (src/main.rs,              *)
(* monitor_idle_time) samples the idle time once per loop iteration and    *)
(* sends Event values on a crossbeam channel; the relay thread and the UI  *)
(* thread (src/windows.rs, start and BasicApp::on_timer_tick) forward and  *)
(* handle them.                                                            *)
(*                                                                         *)
(* Time is the monotonic clock behind Instant, counted in seconds, the     *)
(* unit of the thresholds.  thread::sleep(1 s) lasts at least one second,  *)
(* and every later read of the clock (Instant::now(), start.elapsed()) may *)
(* find it advanced: a drift of d > 0 between two reads stands for any     *)
(* advance of the clock between them.                                      *)
(***************************************************************************)
EXTENDS Integers, Sequences, FiniteSets, TLC

VARIABLES
    now,          \* the monotonic clock (seconds)
    start,        \* main.rs:31  let mut start = Instant::now()
    has_reset,    \* main.rs:32
    has_break,    \* main.rs:33
    pc,           \* the line the monitor thread is about to execute
    sample,       \* the probe result matched by the current loop iteration
    out,          \* the events the current loop iteration has sent so far
    pre,          \* the monitor's state when the current iteration began
    ticks,        \* number of loop iterations begun
    hist,         \* what the samples and events so far amount to (history)
    chan,         \* main.rs:69   the (s, r) channel: monitor -> relay
    ui_chan,      \* windows.rs:191 the (uis, uir) channel: relay -> UI
    relay_pc,     \* the line the relay thread is about to execute
    relay_event,  \* the event the relay thread holds between recv and send
    notices,      \* OnNotice messages posted to the window, not yet dispatched
    ui_pc,        \* "dispatch" (in the message loop) or "drain" (in on_timer_tick)
    label,        \* the text of the window's label
    tray,         \* the title of the tray notification shown last
    sent,         \* every event the monitor has sent, in order (history)
    handled       \* every event on_timer_tick has handled, in order (history)

monVars == <<now, start, has_reset, has_break, pc, sample, out, pre, ticks, hist>>
uiVars  == <<chan, ui_chan, relay_pc, relay_event, notices, ui_pc, label, tray,
             sent, handled>>
vars    == <<now, start, has_reset, has_break, pc, sample, out, pre, ticks, hist,
             chan, ui_chan, relay_pc, relay_event, notices, ui_pc, label, tray,
             sent, handled>>

(***************************************************************************)
(* Program constants (seconds).                                            *)
(***************************************************************************)
IDLE_PAUSE_TIME == 60
IDLE_RESET_TIME == 300
BREAK_TIME == 2700
SLEEP_TIME == 1

(***************************************************************************)
(* Bounds of the model.                                                    *)
(***************************************************************************)
\* a sleep lasts SLEEP_TIME, or is overslept up to LongSleep seconds
LongSleep == 2699
\* the clock advances by at most MaxDrift seconds between two reads
MaxDrift == 1
\* loop iterations explored: for the monitor alone, for the three threads
\* with the window open, and for the three threads with the window closed
\* at any time
MaxTicks == 4
SysTicks == 3
ShutTicks == 2

SleepTimes == {SLEEP_TIME, LongSleep}
Drifts == 0..MaxDrift

(***************************************************************************)
(* Events (main.rs:24-28) and probe results (windows.rs:9-21).             *)
(***************************************************************************)
UpdateTime(d) == [kind |-> "UpdateTime", elapsed |-> d]
NotifyBreak == [kind |-> "NotifyBreak"]
NotifyReset == [kind |-> "NotifyReset"]

Ok(idle) == [tag |-> "Ok", v |-> idle]
Err(errno) == [tag |-> "Err", v |-> errno]
NoSample == [tag |-> "None", v |-> 0]

\* get_idle_time: Ok(GetTickCount() - dwTime) or, when GetLastInputInfo
\* returns 0, Err(0).  The idle times are the values around the thresholds.
IdleTimes == {0, IDLE_PAUSE_TIME, IDLE_PAUSE_TIME + 1,
              IDLE_RESET_TIME, IDLE_RESET_TIME + 1}
get_idle_time == {Ok(t) : t \in IdleTimes} \cup {Err(0)}

(***************************************************************************)
(* History of the run, kept beside the program's own state so that the     *)
(* properties can speak of earlier samples and events.                     *)
(*   away        a sample > IDLE_RESET_TIME arrived since the most recent  *)
(*               sample <= IDLE_PAUSE_TIME (or since startup)              *)
(*   notified    a NotifyReset was sent since the most recent iteration    *)
(*               with a sample <= IDLE_PAUSE_TIME                          *)
(*   last_ok     the most recent Ok sample (-1: none yet)                  *)
(*   fails       the number of Err results in a row up to now              *)
(*   bf          start, has_reset, has_break at the end of the most recent *)
(*               iteration whose probe did not fail                        *)
(*   breaks      NotifyBreak events sent since start was last assigned     *)
(*   reached     the clock reached start + BREAK_TIME since then           *)
(*   frozen      seconds spent in iterations with a sample in              *)
(*               (IDLE_PAUSE_TIME, IDLE_RESET_TIME] since then             *)
(*   all_active  every sample so far was Ok and <= IDLE_PAUSE_TIME         *)
(***************************************************************************)
Snapshot == [start |-> start, has_reset |-> has_reset, has_break |-> has_break]

Hist0 == [away |-> FALSE, notified |-> FALSE, last_ok |-> -1, fails |-> 0,
          bf |-> [start |-> 0, has_reset |-> FALSE, has_break |-> FALSE],
          breaks |-> 0, reached |-> FALSE, frozen |-> 0, all_active |-> TRUE]

IsReset(r) == r.tag = "Ok" /\ r.v > IDLE_RESET_TIME
IsPause(r) == r.tag = "Ok" /\ r.v > IDLE_PAUSE_TIME /\ r.v <= IDLE_RESET_TIME
IsActive(r) == r.tag = "Ok" /\ r.v <= IDLE_PAUSE_TIME
IsErr(r) == r.tag = "Err"

\* the history once the clock reads n and start is s
Seen(h, n, s) == [h EXCEPT !.reached = @ \/ (n - s >= BREAK_TIME)]
\* the history once start is assigned
Fresh(h) == [h EXCEPT !.breaks = 0, !.reached = FALSE, !.frozen = 0]

(***************************************************************************)
(* monitor_idle_time (main.rs:30-65).                                      *)
(***************************************************************************)
MonitorInit ==
    /\ now = 0
    /\ start = 0                     \* main.rs:31
    /\ has_reset = FALSE             \* main.rs:32
    /\ has_break = FALSE             \* main.rs:33
    /\ pc = "l34"
    /\ sample = NoSample
    /\ out = <<>>
    /\ pre = [now |-> 0, start |-> 0, has_reset |-> FALSE, has_break |-> FALSE,
              hist |-> Hist0]
    /\ ticks = 0
    /\ hist = Hist0

\* main.rs:34  s.send(Event::UpdateTime(start.elapsed())).unwrap()
Startup(d) ==
    /\ pc = "l34"
    /\ now' = now + d
    /\ out' = Append(out, UpdateTime(now' - start))
    /\ hist' = Seen(hist, now', start)
    /\ pc' = "l36"
    /\ UNCHANGED <<start, has_reset, has_break, sample, pre, ticks>>

\* MatchArm with a failed probe read as "no idle time": the active arm
MatchArm_ErrIsActive(r) ==
    IF r.tag = "Ok" /\ r.v > IDLE_RESET_TIME THEN "reset"
    ELSE IF r.tag = "Ok" /\ r.v > IDLE_PAUSE_TIME THEN "pause"
    ELSE "active"

\* MatchArm with a failed probe read as a long absence: the reset arm
MatchArm_ErrIsReset(r) ==
    IF r.tag = "Err" \/ r.v > IDLE_RESET_TIME THEN "reset"
    ELSE IF r.v > IDLE_PAUSE_TIME THEN "pause"
    ELSE "active"

\* MatchArm with >= for > in the first guard
MatchArm_ResetInclusive(r) ==
    IF r.tag = "Ok" /\ r.v >= IDLE_RESET_TIME THEN "reset"
    ELSE IF r.tag = "Ok" /\ r.v > IDLE_PAUSE_TIME THEN "pause"
    ELSE IF r.tag = "Ok" THEN "active"
    ELSE "error"

\* MatchArm without the arm for (IDLE_PAUSE_TIME, IDLE_RESET_TIME]
MatchArm_PauseIsActive(r) ==
    IF r.tag = "Ok" /\ r.v > IDLE_RESET_TIME THEN "reset"
    ELSE IF r.tag = "Ok" THEN "active"
    ELSE "error"

\* main.rs:38,46,47,61  the arm of the match that takes the probe result
MatchArm(r) ==
    IF r.tag = "Ok" /\ r.v > IDLE_RESET_TIME THEN "reset"
    ELSE IF r.tag = "Ok" /\ r.v > IDLE_PAUSE_TIME THEN "pause"
    ELSE IF r.tag = "Ok" THEN "active"
    ELSE "error"

\* main.rs:36-39,46,61  sleep, probe, and enter the arm; the arms for
\* (PAUSE, RESET] and Err are empty and end the iteration at once
SleepProbe(dt, r) ==
    /\ pc = "l36"
    /\ now' = now + dt
    /\ sample' = r
    /\ out' = <<>>
    /\ ticks' = ticks + 1
    /\ pre' = [now |-> now, start |-> start, has_reset |-> has_reset,
               has_break |-> has_break, hist |-> hist]
    /\ hist' = [Seen(hist, now', start) EXCEPT
                  !.away = IF IsReset(r) THEN TRUE
                           ELSE IF IsActive(r) THEN FALSE ELSE @,
                  !.last_ok = IF r.tag = "Ok" THEN r.v ELSE @,
                  !.fails = IF IsErr(r) THEN @ + 1 ELSE 0,
                  !.bf = IF IsErr(sample) THEN @ ELSE Snapshot,
                  !.frozen = IF IsPause(r) THEN @ + dt ELSE @,
                  !.all_active = @ /\ IsActive(r)]
    /\ pc' = CASE MatchArm(r) = "reset" -> IF has_reset THEN "l44" ELSE "l40"
               [] MatchArm(r) = "pause" -> "l36"
               [] MatchArm(r) = "active" -> "l48"
               [] MatchArm(r) = "error" -> "l36"
    /\ UNCHANGED <<start, has_reset, has_break>>

\* main.rs:40  s.send(Event::NotifyReset).unwrap()
SendNotifyReset ==
    /\ pc = "l40"
    /\ out' = Append(out, NotifyReset)
    /\ hist' = [hist EXCEPT !.notified = TRUE]
    /\ pc' = "l41"
    /\ UNCHANGED <<now, start, has_reset, has_break, sample, pre, ticks>>

\* SendUpdateZero without has_reset = true
SendUpdateZero_NoFlag ==
    /\ pc = "l41"
    /\ out' = Append(out, UpdateTime(0))
    /\ pc' = "l44"
    /\ UNCHANGED <<now, start, has_reset, has_break, sample, pre, ticks, hist>>

\* SendUpdateZero sending start.elapsed() for the zero duration
SendUpdateZero_Elapsed ==
    /\ pc = "l41"
    /\ out' = Append(out, UpdateTime(now - start))
    /\ has_reset' = TRUE
    /\ pc' = "l44"
    /\ UNCHANGED <<now, start, has_break, sample, pre, ticks, hist>>

\* main.rs:41-42  s.send(Event::UpdateTime(Duration::from_secs(0))).unwrap();
\*                has_reset = true
SendUpdateZero ==
    /\ pc = "l41"
    /\ out' = Append(out, UpdateTime(0))
    /\ has_reset' = TRUE
    /\ pc' = "l44"
    /\ UNCHANGED <<now, start, has_break, sample, pre, ticks, hist>>

\* SlideStart inside the if of main.rs:39: start moves only in the iteration
\* that sent NotifyReset
SlideStart_OnlyFirst(d) ==
    /\ pc = "l44"
    /\ now' = now + d
    /\ start' = IF out = <<>> THEN start ELSE now'
    /\ hist' = IF out = <<>> THEN hist ELSE Fresh(hist)
    /\ pc' = "l36"
    /\ UNCHANGED <<has_reset, has_break, sample, out, pre, ticks>>

\* main.rs:44  start = Instant::now()
SlideStart(d) ==
    /\ pc = "l44"
    /\ now' = now + d
    /\ start' = now'
    /\ hist' = Fresh(hist)
    /\ pc' = "l36"
    /\ UNCHANGED <<has_reset, has_break, sample, out, pre, ticks>>

\* ActiveUpdate without start = Instant::now() on the return from a reset
ActiveUpdate_KeepStart(d1, d2) ==
    /\ pc = "l48"
    /\ IF has_reset
       THEN /\ has_reset' = FALSE
            /\ has_break' = FALSE
            /\ now' = now + d1 + d2
            /\ hist' = [Seen(hist, now', start) EXCEPT !.notified = FALSE]
       ELSE /\ now' = now + d2
            /\ d1 = 0
            /\ hist' = [Seen(hist, now', start) EXCEPT !.notified = FALSE]
            /\ UNCHANGED <<has_reset, has_break>>
    /\ start' = start
    /\ out' = Append(out, UpdateTime(now' - start'))
    /\ pc' = "l54"
    /\ UNCHANGED <<sample, pre, ticks>>

\* ActiveUpdate reporting the time since the previous iteration, not since start
ActiveUpdate_SinceTick(d1, d2) ==
    /\ pc = "l48"
    /\ IF has_reset
       THEN /\ start' = now + d1
            /\ has_reset' = FALSE
            /\ has_break' = FALSE
            /\ now' = now + d1 + d2
            /\ hist' = [Seen(Fresh(hist), now', start') EXCEPT !.notified = FALSE]
       ELSE /\ now' = now + d2
            /\ d1 = 0
            /\ hist' = [Seen(hist, now', start) EXCEPT !.notified = FALSE]
            /\ UNCHANGED <<start, has_reset, has_break>>
    /\ out' = Append(out, UpdateTime(now' - pre.now))
    /\ pc' = "l54"
    /\ UNCHANGED <<sample, pre, ticks>>

\* ActiveUpdate without has_reset = false on the return from a reset
ActiveUpdate_KeepReset(d1, d2) ==
    /\ pc = "l48"
    /\ IF has_reset
       THEN /\ start' = now + d1
            /\ has_break' = FALSE
            /\ now' = now + d1 + d2
            /\ hist' = [Seen(Fresh(hist), now', start') EXCEPT !.notified = FALSE]
            /\ UNCHANGED has_reset
       ELSE /\ now' = now + d2
            /\ d1 = 0
            /\ hist' = [Seen(hist, now', start) EXCEPT !.notified = FALSE]
            /\ UNCHANGED <<start, has_reset, has_break>>
    /\ out' = Append(out, UpdateTime(now' - start'))
    /\ pc' = "l54"
    /\ UNCHANGED <<sample, pre, ticks>>

\* ActiveUpdate without has_break = false on the return from a reset
ActiveUpdate_KeepBreak(d1, d2) ==
    /\ pc = "l48"
    /\ IF has_reset
       THEN /\ start' = now + d1
            /\ has_reset' = FALSE
            /\ now' = now + d1 + d2
            /\ hist' = [Seen(Fresh(hist), now', start') EXCEPT !.notified = FALSE]
            /\ UNCHANGED has_break
       ELSE /\ now' = now + d2
            /\ d1 = 0
            /\ hist' = [Seen(hist, now', start) EXCEPT !.notified = FALSE]
            /\ UNCHANGED <<start, has_reset, has_break>>
    /\ out' = Append(out, UpdateTime(now' - start'))
    /\ pc' = "l54"
    /\ UNCHANGED <<sample, pre, ticks>>

\* ActiveUpdate with a fresh session on every return to activity
ActiveUpdate_AlwaysFresh(d1, d2) ==
    /\ pc = "l48"
    /\ start' = now + d1
    /\ has_reset' = FALSE
    /\ has_break' = FALSE
    /\ now' = now + d1 + d2
    /\ hist' = [Seen(Fresh(hist), now', start') EXCEPT !.notified = FALSE]
    /\ out' = Append(out, UpdateTime(now' - start'))
    /\ pc' = "l54"
    /\ UNCHANGED <<sample, pre, ticks>>

\* main.rs:48-53  begin a fresh session after a reset, then
\*                s.send(Event::UpdateTime(start.elapsed())).unwrap()
ActiveUpdate(d1, d2) ==
    /\ pc = "l48"
    /\ IF has_reset
       THEN /\ start' = now + d1
            /\ has_reset' = FALSE
            /\ has_break' = FALSE
            /\ now' = now + d1 + d2
            /\ hist' = [Seen(Fresh(hist), now', start') EXCEPT !.notified = FALSE]
       ELSE /\ now' = now + d2
            /\ d1 = 0
            /\ hist' = [Seen(hist, now', start) EXCEPT !.notified = FALSE]
            /\ UNCHANGED <<start, has_reset, has_break>>
    /\ out' = Append(out, UpdateTime(now' - start'))
    /\ pc' = "l54"
    /\ UNCHANGED <<sample, pre, ticks>>

\* CheckBreak comparing with IDLE_RESET_TIME
CheckBreak_WrongThreshold(d) ==
    /\ pc = "l54"
    /\ now' = now + d
    /\ hist' = Seen(hist, now', start)
    /\ pc' = IF now' - start >= IDLE_RESET_TIME /\ ~has_break THEN "l56" ELSE "l36"
    /\ UNCHANGED <<start, has_reset, has_break, sample, out, pre, ticks>>

\* CheckBreak with > for >=
CheckBreak_Strict(d) ==
    /\ pc = "l54"
    /\ now' = now + d
    /\ hist' = Seen(hist, now', start)
    /\ pc' = IF now' - start > BREAK_TIME /\ ~has_break THEN "l56" ELSE "l36"
    /\ UNCHANGED <<start, has_reset, has_break, sample, out, pre, ticks>>

\* main.rs:54-55  if start.elapsed() >= BREAK_TIME { if !has_break {
CheckBreak(d) ==
    /\ pc = "l54"
    /\ now' = now + d
    /\ hist' = Seen(hist, now', start)
    /\ pc' = IF now' - start >= BREAK_TIME /\ ~has_break THEN "l56" ELSE "l36"
    /\ UNCHANGED <<start, has_reset, has_break, sample, out, pre, ticks>>

\* SendNotifyBreak without has_break = true
SendNotifyBreak_NoFlag ==
    /\ pc = "l56"
    /\ out' = Append(out, NotifyBreak)
    /\ hist' = [hist EXCEPT !.breaks = @ + 1]
    /\ pc' = "l36"
    /\ UNCHANGED <<now, start, has_reset, has_break, sample, pre, ticks>>

\* main.rs:56-57  s.send(Event::NotifyBreak).unwrap(); has_break = true
SendNotifyBreak ==
    /\ pc = "l56"
    /\ out' = Append(out, NotifyBreak)
    /\ has_break' = TRUE
    /\ hist' = [hist EXCEPT !.breaks = @ + 1]
    /\ pc' = "l36"
    /\ UNCHANGED <<now, start, has_reset, sample, pre, ticks>>

\* SendFail with the error ignored (let _ = s.send(..)): the monitor goes on
\* to the next line
SendFail_Ignored ==
    /\ pc \in {"l40", "l41", "l56"}
    /\ pc' = CASE pc = "l40" -> "l41"
               [] pc = "l41" -> "l44"
               [] pc = "l56" -> "l36"
    /\ has_reset' = IF pc = "l41" THEN TRUE ELSE has_reset
    /\ has_break' = IF pc = "l56" THEN TRUE ELSE has_break
    /\ UNCHANGED <<now, start, sample, out, pre, ticks, hist>>

\* main.rs:40,41,56  send(..) returns Err because the receiver is gone, and
\* unwrap() panics: the thread ends at that line.  (The send of main.rs:34
\* cannot fail: the receiver is dropped only after the relay received an
\* event.)
SendFail ==
    /\ pc \in {"l40", "l41", "l56"}
    /\ pc' = CASE pc = "l40" -> "panic40"
               [] pc = "l41" -> "panic41"
               [] pc = "l56" -> "panic56"
    /\ UNCHANGED <<now, start, has_reset, has_break, sample, out, pre, ticks, hist>>

\* main.rs:48-53  the active arm when the send of main.rs:53 fails: the
\* assignments of main.rs:49-51 are done, then unwrap() panics
ActiveUpdateFail(d1) ==
    /\ pc = "l48"
    /\ IF has_reset
       THEN /\ start' = now + d1
            /\ has_reset' = FALSE
            /\ has_break' = FALSE
            /\ now' = now + d1
            /\ hist' = Fresh(hist)
       ELSE /\ d1 = 0
            /\ UNCHANGED <<now, start, has_reset, has_break, hist>>
    /\ pc' = "panic53"
    /\ UNCHANGED <<sample, out, pre, ticks>>

(***************************************************************************)
(* start (windows.rs:187-211): the relay thread, and the UI thread's       *)
(* message loop with BasicApp::on_timer_tick (windows.rs:72-96).           *)
(***************************************************************************)
UiInit ==
    /\ chan = <<>>                   \* main.rs:69      unbounded()
    /\ ui_chan = <<>>                \* windows.rs:191  unbounded()
    /\ relay_pc = "l198"
    /\ relay_event = NoSample
    /\ notices = 0
    /\ ui_pc = "dispatch"
    /\ label = "Starting..."         \* windows.rs:126
    /\ tray = ""
    /\ sent = <<>>
    /\ handled = <<>>

\* the relay thread owns r (windows.rs:196): r lives until that thread ends
ReceiverAlive == relay_pc # "panicked"

\* ui owns the receiver of the UI channel (windows.rs:191-193): it lives
\* until start returns
UiAlive == ui_pc # "returned"

\* a bounded(1) channel for the unbounded one: send waits while it is full
Deliver_Bounded ==
    /\ ReceiverAlive
    /\ Len(chan) < 1
    /\ chan' = Append(chan, out'[Len(out')])
    /\ sent' = Append(sent, out'[Len(out')])
    /\ UNCHANGED <<ui_chan, relay_pc, relay_event, notices, ui_pc, label, tray,
                   handled>>

\* Sender::send on the (s, r) channel, unbounded (main.rs:69): with the
\* receiver alive the event the monitor's step has just appended to out is
\* enqueued, whatever the channel holds
Deliver ==
    /\ ReceiverAlive
    /\ chan' = Append(chan, out'[Len(out')])
    /\ sent' = Append(sent, out'[Len(out')])
    /\ UNCHANGED <<ui_chan, relay_pc, relay_event, notices, ui_pc, label, tray,
                   handled>>

\* RelayRecv taking the newest event of the channel
RelayRecv_Newest ==
    /\ relay_pc = "l198"
    /\ chan # <<>>
    /\ relay_event' = chan[Len(chan)]
    /\ chan' = SubSeq(chan, 1, Len(chan) - 1)
    /\ relay_pc' = "l200"
    /\ UNCHANGED <<ui_chan, notices, ui_pc, label, tray, sent, handled>>

\* windows.rs:198-199  r.recv() returns the oldest event; it blocks while the
\* channel is empty
RelayRecv ==
    /\ relay_pc = "l198"
    /\ chan # <<>>
    /\ relay_event' = Head(chan)
    /\ chan' = Tail(chan)
    /\ relay_pc' = "l200"
    /\ UNCHANGED <<ui_chan, notices, ui_pc, label, tray, sent, handled>>

\* windows.rs:200  uis.send(event).unwrap()
RelaySend ==
    /\ relay_pc = "l200"
    /\ UiAlive
    /\ ui_chan' = Append(ui_chan, relay_event)
    /\ relay_pc' = "l201"
    /\ UNCHANGED <<chan, relay_event, notices, ui_pc, label, tray, sent, handled>>

\* RelayNotice without the notice
RelayNotice_Dropped ==
    /\ relay_pc = "l201"
    /\ relay_pc' = "l198"
    /\ UNCHANGED <<chan, ui_chan, relay_event, notices, ui_pc, label, tray, sent,
                   handled>>

\* windows.rs:201  sender.notice() posts an OnNotice message to the window;
\* nothing is posted once the window is gone
RelayNotice ==
    /\ relay_pc = "l201"
    /\ notices' = IF UiAlive THEN notices + 1 ELSE notices
    /\ relay_pc' = "l198"
    /\ UNCHANGED <<chan, ui_chan, relay_event, ui_pc, label, tray, sent, handled>>

\* windows.rs:154-156, 210  the message loop dispatches one OnNotice message
\* to handle_events, which calls on_timer_tick
DispatchNotice ==
    /\ ui_pc = "dispatch"
    /\ notices > 0
    /\ notices' = notices - 1
    /\ ui_pc' = "drain"
    /\ UNCHANGED <<chan, ui_chan, relay_pc, relay_event, label, tray, sent, handled>>

\* windows.rs:77  format!("{:?}", duration) for a whole number of seconds
fmt_duration(d) == IF d = 0 THEN "0ns" ELSE ToString(d) \o "s"

\* windows.rs:74-86  try_recv() returns Ok(event): handle it and loop
HandleEvent ==
    /\ ui_pc = "drain"
    /\ ui_chan # <<>>
    /\ LET event == Head(ui_chan) IN
         /\ label' = IF event.kind = "UpdateTime"
                     THEN fmt_duration(event.elapsed) ELSE label
         /\ tray' = CASE event.kind = "NotifyReset" -> "Back to work!"
                      [] event.kind = "NotifyBreak" -> "Break Time!"
                      [] OTHER -> tray
         /\ handled' = Append(handled, event)
    /\ ui_chan' = Tail(ui_chan)
    /\ UNCHANGED <<chan, relay_pc, relay_event, notices, ui_pc, sent>>

\* windows.rs:87-89  try_recv() returns Err(Empty): on_timer_tick returns
DrainEmpty ==
    /\ ui_pc = "drain"
    /\ ui_chan = <<>>
    /\ ui_pc' = "dispatch"
    /\ UNCHANGED <<chan, ui_chan, relay_pc, relay_event, notices, label, tray,
                   sent, handled>>

\* windows.rs:151-153, 210-211  OnWindowClose calls stop_thread_dispatch:
\* the message loop ends, start returns and drops ui with the receiver of
\* the UI channel; main returns next and the process exits, which stops the
\* other threads wherever they are
CloseWindow ==
    /\ ui_pc = "dispatch"
    /\ ui_pc' = "returned"
    /\ UNCHANGED <<chan, ui_chan, relay_pc, relay_event, notices, label, tray,
                   sent, handled>>

\* windows.rs:200  uis.send(event) returns Err because the receiver is gone,
\* and unwrap() panics: the relay thread ends, holding the event, and r is
\* dropped with the events still in the channel
RelaySendFail ==
    /\ relay_pc = "l200"
    /\ ~UiAlive
    /\ relay_pc' = "panicked"
    /\ UNCHANGED <<chan, ui_chan, relay_event, notices, ui_pc, label, tray, sent,
                   handled>>

(***************************************************************************)
(* Spec: the monitor thread alone.  Its sends never block and, with the    *)
(* receiver alive, never fail; out is what it sends.                       *)
(***************************************************************************)
Init == MonitorInit /\ UiInit

M_Startup == \E d \in Drifts : Startup(d) /\ UNCHANGED uiVars
M_SleepProbe ==
    \E dt \in SleepTimes, r \in get_idle_time :
        ticks < MaxTicks /\ SleepProbe(dt, r) /\ UNCHANGED uiVars
M_SendNotifyReset == SendNotifyReset /\ UNCHANGED uiVars
M_SendUpdateZero == SendUpdateZero /\ UNCHANGED uiVars
M_SlideStart == \E d \in Drifts : SlideStart(d) /\ UNCHANGED uiVars
M_ActiveUpdate == \E d1, d2 \in Drifts : ActiveUpdate(d1, d2) /\ UNCHANGED uiVars
M_CheckBreak == \E d \in Drifts : CheckBreak(d) /\ UNCHANGED uiVars
M_SendNotifyBreak == SendNotifyBreak /\ UNCHANGED uiVars

Next ==
    \/ M_Startup
    \/ M_SleepProbe
    \/ M_SendNotifyReset
    \/ M_SendUpdateZero
    \/ M_SlideStart
    \/ M_ActiveUpdate
    \/ M_CheckBreak
    \/ M_SendNotifyBreak

Spec == Init /\ [][Next]_vars

(***************************************************************************)
(* SysSpec: main (main.rs:67-73): the monitor thread, the relay thread and *)
(* the UI thread, interleaved, while the window stays open.  Here the      *)
(* clock advances during the sleep only.                                   *)
(***************************************************************************)
S_Startup == Startup(0) /\ Deliver
S_SleepProbe ==
    \E dt \in SleepTimes, r \in get_idle_time :
        ticks < SysTicks /\ SleepProbe(dt, r) /\ UNCHANGED uiVars
S_SendNotifyReset == SendNotifyReset /\ Deliver
S_SendUpdateZero == SendUpdateZero /\ Deliver
S_SlideStart == SlideStart(0) /\ UNCHANGED uiVars
S_ActiveUpdate == ActiveUpdate(0, 0) /\ Deliver
S_CheckBreak == CheckBreak(0) /\ UNCHANGED uiVars
S_SendNotifyBreak == SendNotifyBreak /\ Deliver
S_RelayRecv == RelayRecv /\ UNCHANGED monVars
S_RelaySend == RelaySend /\ UNCHANGED monVars
S_RelayNotice == RelayNotice /\ UNCHANGED monVars
S_DispatchNotice == DispatchNotice /\ UNCHANGED monVars
S_HandleEvent == HandleEvent /\ UNCHANGED monVars
S_DrainEmpty == DrainEmpty /\ UNCHANGED monVars

SysNext ==
    \/ S_Startup
    \/ S_SleepProbe
    \/ S_SendNotifyReset
    \/ S_SendUpdateZero
    \/ S_SlideStart
    \/ S_ActiveUpdate
    \/ S_CheckBreak
    \/ S_SendNotifyBreak
    \/ S_RelayRecv
    \/ S_RelaySend
    \/ S_RelayNotice
    \/ S_DispatchNotice
    \/ S_HandleEvent
    \/ S_DrainEmpty

SysSpec == Init /\ [][SysNext]_vars

(***************************************************************************)
(* ShutSpec: the three threads with the window closed at any time, up to   *)
(* the exit of the process.                                                *)
(***************************************************************************)
X_SleepProbe ==
    \E dt \in SleepTimes, r \in get_idle_time :
        ticks < ShutTicks /\ SleepProbe(dt, r) /\ UNCHANGED uiVars
X_SendFail == ~ReceiverAlive /\ SendFail /\ UNCHANGED uiVars
X_ActiveUpdateFail == ~ReceiverAlive /\ ActiveUpdateFail(0) /\ UNCHANGED uiVars
X_CloseWindow == CloseWindow /\ UNCHANGED monVars
X_RelaySendFail == RelaySendFail /\ UNCHANGED monVars

\* a step of monitor_idle_time
MonitorStep ==
    \/ S_Startup
    \/ X_SleepProbe
    \/ S_SendNotifyReset
    \/ S_SendUpdateZero
    \/ S_SlideStart
    \/ S_ActiveUpdate
    \/ S_CheckBreak
    \/ S_SendNotifyBreak

ShutNext ==
    \/ S_Startup
    \/ X_SleepProbe
    \/ S_SendNotifyReset
    \/ S_SendUpdateZero
    \/ S_SlideStart
    \/ S_ActiveUpdate
    \/ S_CheckBreak
    \/ S_SendNotifyBreak
    \/ X_SendFail
    \/ X_ActiveUpdateFail
    \/ S_RelayRecv
    \/ S_RelaySend
    \/ S_RelayNotice
    \/ X_RelaySendFail
    \/ S_DispatchNotice
    \/ S_HandleEvent
    \/ S_DrainEmpty
    \/ X_CloseWindow

ShutSpec == Init /\ [][ShutNext]_vars

(***************************************************************************)
(* LiveSpec: ShutSpec with the relay thread and the UI thread scheduled    *)
(* fairly: a step of either that stays possible is taken in the end.  The  *)
(* monitor and the closing of the window are under no such obligation.     *)
(***************************************************************************)
Fairness ==
    /\ WF_vars(S_RelayRecv)
    /\ WF_vars(S_RelaySend)
    /\ WF_vars(S_RelayNotice)
    /\ WF_vars(S_DispatchNotice)
    /\ WF_vars(S_HandleEvent)
    /\ WF_vars(S_DrainEmpty)

LiveSpec == ShutSpec /\ Fairness

\* the most events the monitor can send: one at startup and two in an
\* iteration
MaxEvents == 1 + 2 * ShutTicks

\* the iteration has ended and the monitor is about to sleep again
TickDone == pc = "l36" /\ ticks > 0

\* how many events of kind k the sequence s holds
Count(k, s) == Cardinality({i \in DOMAIN s : s[i].kind = k})

(***************************************************************************)
(* C1.  Stated: every excursion (maximal run of samples > IDLE_RESET_TIME) *)
(* sends exactly one NotifyReset, on its first sample.                     *)
(***************************************************************************)
\* C1 as stated: a sample > RESET sends one NotifyReset when the previous
\* sample was not > RESET (the excursion begins), and none otherwise.
C1_OneResetPerExcursion ==
    TickDone /\ IsReset(sample) =>
        Count("NotifyReset", out) =
            (IF pre.hist.last_ok > IDLE_RESET_TIME THEN 0 ELSE 1)

\* C1 amended: a sample > RESET sends exactly one NotifyReset, first in the
\* iteration, when no sample > RESET arrived since the last sample <= PAUSE
\* (or since startup), and none otherwise; so an excursion sends at most one
\* NotifyReset, and one that follows an earlier excursion with only samples
\* in (PAUSE, RESET] or probe failures in between sends none.  No other
\* iteration sends a NotifyReset.
C1_OneResetPerAbsence ==
    /\ TickDone /\ IsReset(sample) /\ ~pre.hist.away =>
          Count("NotifyReset", out) = 1 /\ out[1] = NotifyReset
    /\ TickDone /\ IsReset(sample) /\ pre.hist.away => out = <<>>
    /\ TickDone /\ ~IsReset(sample) => Count("NotifyReset", out) = 0

\* a second excursion, reached through (PAUSE, RESET], that sends nothing
\* after the first one sent its NotifyReset
C1_Witness ==
    /\ TickDone /\ IsReset(sample) /\ out = <<>>
    /\ hist.notified /\ pre.hist.away
    /\ pre.hist.last_ok > IDLE_PAUSE_TIME /\ pre.hist.last_ok <= IDLE_RESET_TIME

(***************************************************************************)
(* C2.  Stated: once now - start has reached BREAK_TIME, exactly one       *)
(* NotifyBreak is sent before start is next assigned: never two, never     *)
(* zero.                                                                   *)
(***************************************************************************)
\* the monitor is about to assign start (main.rs:44 or main.rs:49)
AboutToRestart == pc \in {"l40", "l44"} \/ (pc = "l48" /\ has_reset)

\* C2 as stated: never two NotifyBreak between two assignments of start, and
\* exactly one when the clock had reached start + BREAK_TIME.
C2_ExactlyOneBreak ==
    /\ hist.breaks <= 1
    /\ AboutToRestart /\ hist.reached => hist.breaks = 1

\* C2 amended: between two assignments of start at most one NotifyBreak is
\* sent, and exactly one has been sent by the end of every iteration with a
\* sample <= PAUSE that reads start.elapsed() >= BREAK_TIME on main.rs:54;
\* when the clock reaches start + BREAK_TIME only during samples > PAUSE or
\* probe failures, none is sent.
C2_AtMostOneBreak ==
    /\ hist.breaks <= 1
    /\ TickDone /\ IsActive(sample) /\ now - start >= BREAK_TIME =>
          hist.breaks = 1 /\ has_break

\* an active iteration past BREAK_TIME, after the one that sent NotifyBreak,
\* that sends only its UpdateTime
C2_Witness ==
    /\ TickDone /\ IsActive(sample) /\ now - start >= BREAK_TIME
    /\ pre.has_break /\ hist.breaks = 1 /\ Len(out) = 1

(***************************************************************************)
(* C3.  No NotifyBreak while now - start < BREAK_TIME.                     *)
(***************************************************************************)
\* C3: an iteration that sends, or is about to send, NotifyBreak has read
\* now - start >= BREAK_TIME.
C3_NoBreakBelowThreshold ==
    pc = "l56" \/ Count("NotifyBreak", out) > 0 => now - start >= BREAK_TIME

\* an active iteration one second short of BREAK_TIME that sends no NotifyBreak
C3_Witness ==
    /\ TickDone /\ IsActive(sample) /\ now - start = BREAK_TIME - 1
    /\ out = <<UpdateTime(BREAK_TIME - 1)>> /\ ~has_break

(***************************************************************************)
(* C4.  Stated: after a NotifyReset, the next sample <= PAUSE sends        *)
(* UpdateTime(0), clears both flags, and a later sample > RESET sends      *)
(* NotifyReset again.                                                      *)
(***************************************************************************)
\* C4 as stated: after a NotifyReset, the next iteration with a sample
\* <= PAUSE sends UpdateTime(0) and clears has_reset and has_break, and a
\* later sample > RESET sends NotifyReset again.
C4_ReturnReportsZero ==
    /\ pc = "l54" /\ pre.hist.notified =>
          out = <<UpdateTime(0)>> /\ ~has_reset /\ ~has_break
    /\ TickDone /\ IsReset(sample) /\ ~pre.hist.notified =>
          Count("NotifyReset", out) = 1

\* C4 amended: after a NotifyReset, the next iteration with a sample <= PAUSE
\* assigns start after its sleep, sends one UpdateTime carrying
\* start.elapsed() for that new start (the clock's advance between
\* main.rs:49 and main.rs:53: 0 only when the clock did not advance) and
\* clears both flags; a later sample > RESET sends NotifyReset again.
C4_ReturnStartsFreshSession ==
    /\ pc = "l54" /\ pre.hist.notified =>
          /\ out = <<UpdateTime(now - start)>>
          /\ start >= pre.now + SLEEP_TIME
          /\ ~has_reset /\ ~has_break
    /\ TickDone /\ IsReset(sample) /\ ~pre.hist.notified =>
          Count("NotifyReset", out) = 1

\* NotifyReset is sent again after a return from an earlier reset
C4_Witness ==
    /\ TickDone /\ IsReset(sample) /\ out = <<NotifyReset, UpdateTime(0)>>
    /\ pre.start > 0 /\ ~pre.has_reset /\ ~pre.has_break
    /\ pre.hist.last_ok >= 0 /\ pre.hist.last_ok <= IDLE_PAUSE_TIME

(***************************************************************************)
(* C5.  A probe failure sends nothing and changes nothing.                 *)
(***************************************************************************)
\* C5: an iteration whose probe returned Err sends no event and leaves
\* start, has_reset and has_break as they were.
C5_ProbeFailureIsNoOp ==
    TickDone /\ IsErr(sample) =>
        /\ out = <<>>
        /\ start = pre.start
        /\ has_reset = pre.has_reset
        /\ has_break = pre.has_break

\* a probe failure met with both flags set
C5_Witness ==
    TickDone /\ IsErr(sample) /\ has_reset /\ has_break /\ start > 0

(***************************************************************************)
(* C6.  A sample in (PAUSE, RESET] sends nothing and changes nothing.      *)
(***************************************************************************)
\* C6: an iteration whose sample s has PAUSE < s <= RESET sends no event and
\* leaves start, has_reset and has_break as they were.
C6_PauseBandIsNoOp ==
    TickDone /\ sample.tag = "Ok"
             /\ sample.v > IDLE_PAUSE_TIME /\ sample.v <= IDLE_RESET_TIME =>
        /\ out = <<>>
        /\ start = pre.start
        /\ has_reset = pre.has_reset
        /\ has_break = pre.has_break

\* two such iterations in a row, the second with a sample of exactly RESET
C6_Witness ==
    /\ TickDone /\ sample = Ok(IDLE_RESET_TIME)
    /\ pre.hist.last_ok = IDLE_PAUSE_TIME + 1
    /\ hist.frozen >= 2 * SLEEP_TIME

(***************************************************************************)
(* C7.  Stated: the time spent in iterations with samples in (PAUSE, RESET]*)
(* is not counted in the UpdateTime sent on return.                        *)
(***************************************************************************)
\* C7 as stated: when a sample <= PAUSE follows samples in (PAUSE, RESET]
\* with no reset in between, the UpdateTime sent leaves out the seconds
\* spent in those iterations.
C7_ClockFrozenInPauseBand ==
    pc = "l54" /\ ~pre.has_reset
               /\ pre.hist.last_ok > IDLE_PAUSE_TIME
               /\ pre.hist.last_ok <= IDLE_RESET_TIME =>
        out = <<UpdateTime(now - start - hist.frozen)>>

C10_ExactSeconds ==
    /\ pc = "l34" => ticks = 0 /\ out = <<>>
    /\ ticks = 0 /\ pc = "l36" => out = <<UpdateTime(0)>>
    /\ pc = "l54" => out = <<UpdateTime(now - start)>>
    /\ TickDone /\ IsActive(sample) => Count("UpdateTime", out) = 1
    /\ pc = "l54" /\ hist.all_active => out = <<UpdateTime(ticks * SLEEP_TIME)>>

\* C10 amended: the first event is UpdateTime(start.elapsed()), sent before
\* any probe sample is taken (0 only when the clock did not advance since
\* main.rs:31); every iteration with a sample <= PAUSE sends exactly one
\* UpdateTime, first, carrying now - start; with only active samples from
\* startup the value of iteration n is at least n s, and it grows by at
\* least 1 s from one iteration to the next.
C10_UpdateEveryActiveTick ==
    /\ pc = "l34" => ticks = 0 /\ out = <<>>
    /\ ticks = 0 /\ pc = "l36" => out = <<UpdateTime(now - start)>>
    /\ pc = "l54" => out = <<UpdateTime(now - start)>>
    /\ TickDone /\ IsActive(sample) =>
          Count("UpdateTime", out) = 1 /\ out[1].kind = "UpdateTime"
    /\ pc = "l54" /\ hist.all_active =>
          /\ now - start >= ticks * SLEEP_TIME
          /\ now - start >= (pre.now - pre.start) + SLEEP_TIME

\* the third active iteration from startup sends UpdateTime(3 s)
C10_Witness ==
    pc = "l54" /\ hist.all_active /\ ticks = 3 /\ out = <<UpdateTime(3 * SLEEP_TIME)>>

(***************************************************************************)
(* C9.  The events handled are a prefix of the events sent.                *)
(***************************************************************************)
\* the events in flight, oldest first
InFlight ==
    ui_chan \o (IF relay_pc = "l200" THEN <<relay_event>> ELSE <<>>) \o chan

\* C9: under every interleaving of the three threads, what on_timer_tick has
\* handled is a prefix of what monitor_idle_time has sent, and the events not
\* yet handled are in the two channels (or in the relay's hands) in the order
\* sent: none lost, duplicated or reordered.
C9_HandledIsPrefixOfSent ==
    /\ Len(handled) <= Len(sent)
    /\ \A i \in 1..Len(handled) : handled[i] = sent[i]
    /\ sent = handled \o InFlight

\* three events handled in order while later ones wait in both channels
C9_Witness ==
    /\ Len(handled) = 3 /\ handled[2] = NotifyReset /\ handled[3] = UpdateTime(0)
    /\ ui_pc = "drain" /\ ui_chan # <<>> /\ chan # <<>>
    /\ label = "0ns" /\ tray = "Back to work!"

(***************************************************************************)
(* C11.  Stated: has_reset is true only if the most recent successful      *)
(* sample exceeded IDLE_RESET_TIME, and it is cleared exactly in the       *)
(* iteration where a sample <= IDLE_PAUSE_TIME arrives while it is set.    *)
(***************************************************************************)
\* has_reset goes from TRUE to FALSE in an iteration exactly when the sample
\* of that iteration is <= IDLE_PAUSE_TIME
ClearedExactlyOnReturn ==
    TickDone /\ pre.has_reset => (has_reset <=> ~IsActive(sample))

\* C11 as stated: between iterations, has_reset is true only if the most
\* recent successful idle sample was > IDLE_RESET_TIME, and has_reset is
\* cleared exactly in the iteration whose sample is <= IDLE_PAUSE_TIME.
C11_ResetMeansLastSampleAway ==
    /\ TickDone /\ has_reset => hist.last_ok > IDLE_RESET_TIME
    /\ ClearedExactlyOnReturn

\* C11: between iterations, has_reset is true exactly if a sample
\* > IDLE_RESET_TIME arrived since the most recent sample <= IDLE_PAUSE_TIME
\* (so the most recent successful sample is > IDLE_PAUSE_TIME, but it may lie
\* in (IDLE_PAUSE_TIME, IDLE_RESET_TIME]), and has_reset is cleared exactly in
\* the iteration whose sample is <= IDLE_PAUSE_TIME.
C11_ResetMeansAwaySinceActive ==
    /\ TickDone => (has_reset <=> hist.away)
    /\ TickDone /\ has_reset => hist.last_ok > IDLE_PAUSE_TIME
    /\ ClearedExactlyOnReturn

\* has_reset outlives a sample in (IDLE_PAUSE_TIME, IDLE_RESET_TIME] and a
\* failed probe, and the next sample <= IDLE_PAUSE_TIME has cleared it
C11_Witness ==
    /\ TickDone /\ ~has_reset /\ pre.has_reset /\ IsActive(sample)
    /\ pre.hist.last_ok = IDLE_PAUSE_TIME + 1 /\ pre.hist.fails = 1

(***************************************************************************)
(* C12.  Stated: has_break is true only if now - start has reached         *)
(* BREAK_TIME since start was last assigned.                               *)
(***************************************************************************)
\* C12 as stated: in every reachable state, has_break is true only if the
\* clock has reached start + BREAK_TIME since the last assignment to start
\* (by a sample > IDLE_RESET_TIME or by the return from a reset).
C12_BreakMeansReachedSinceAssign ==
    has_break => hist.reached

\* C12: in every reachable state, has_break is true only if the clock has
\* reached start + BREAK_TIME since the last assignment to start, or
\* has_reset is true: a sample > IDLE_RESET_TIME assigns start and leaves
\* has_break set until the return from the reset clears both flags.
C12_BreakMeansReachedOrAway ==
    /\ has_break => hist.reached \/ has_reset
    /\ TickDone /\ pre.has_break /\ ~IsActive(sample) => has_break

\* the break was announced, then a sample > IDLE_RESET_TIME moved start:
\* has_break is still set although the new session is younger than BREAK_TIME
C12_Witness ==
    /\ TickDone /\ has_break /\ has_reset /\ ~hist.reached
    /\ now - start < BREAK_TIME /\ IsReset(sample)

(***************************************************************************)
(* C13.  start never decreases and is assigned the current time only at    *)
(* startup, by every sample > IDLE_RESET_TIME and by the return from a     *)
(* reset.                                                                  *)
(***************************************************************************)
\* the iteration that just ended had to assign start
AssignsStart ==
    IsReset(sample) \/ (IsActive(sample) /\ pre.has_reset)

\* C13: start never decreases; a step that changes start sets it to a clock
\* reading of that step; an iteration whose sample is > IDLE_RESET_TIME
\* (has_reset set or not) or whose sample is <= IDLE_PAUSE_TIME while
\* has_reset is true ends with start read from the clock during that
\* iteration, and every other iteration ends with start as it began.
C13_StartAssignedOnlyOnResetOrReturn ==
    /\ [][/\ start' >= start
          /\ start' # start => now <= start' /\ start' <= now']_vars
    /\ [](TickDone =>
            IF AssignsStart
            THEN pre.now + SLEEP_TIME <= start /\ start <= now
            ELSE start = pre.start)

\* a second sample > IDLE_RESET_TIME in a row moved start again, and no
\* event was sent
C13_Witness ==
    /\ TickDone /\ IsReset(sample) /\ pre.has_reset /\ out = <<>>
    /\ start > pre.start /\ pre.start > 0

(***************************************************************************)
(* C14.  Stated: a sample <= IDLE_PAUSE_TIME after samples in              *)
(* (IDLE_PAUSE_TIME, IDLE_RESET_TIME] resumes via a fresh session and      *)
(* clears has_reset and has_break.                                         *)
(***************************************************************************)
\* the active arm has just sent its UpdateTime, and the previous probe
\* result was a sample in (IDLE_PAUSE_TIME, IDLE_RESET_TIME]
FrozenToActive ==
    /\ pc = "l54" /\ IsActive(sample)
    /\ pre.hist.fails = 0
    /\ pre.hist.last_ok > IDLE_PAUSE_TIME /\ pre.hist.last_ok <= IDLE_RESET_TIME

\* C14 as stated: when a sample <= IDLE_PAUSE_TIME follows a sample in
\* (IDLE_PAUSE_TIME, IDLE_RESET_TIME], the monitor assigns start anew in that
\* iteration and has_reset and has_break are false afterwards.
C14_ResumeIsFreshSession ==
    FrozenToActive =>
        /\ start >= pre.now + SLEEP_TIME
        /\ ~has_reset /\ ~has_break

\* C14: when a sample <= IDLE_PAUSE_TIME follows a sample in
\* (IDLE_PAUSE_TIME, IDLE_RESET_TIME], the monitor sends one UpdateTime and
\* has_reset is false afterwards; it assigns start anew and clears has_break
\* only if has_reset was true (a sample > IDLE_RESET_TIME came before the
\* samples in the band), and otherwise resumes the session it had, with
\* start and has_break as they were.
C14_ResumeKeepsSessionUnlessReset ==
    FrozenToActive =>
        /\ ~has_reset
        /\ Len(out) = 1 /\ out[1].kind = "UpdateTime"
        /\ IF pre.has_reset
           THEN start >= pre.now + SLEEP_TIME /\ ~has_break
           ELSE start = pre.start /\ has_break = pre.has_break

\* the break was announced, a sample in the band came, and the next active
\* sample resumed the same session with has_break still set
C14_Witness ==
    /\ FrozenToActive /\ ~pre.has_reset
    /\ pre.has_break /\ has_break /\ start = pre.start
    /\ out[1].elapsed >= BREAK_TIME

(***************************************************************************)
(* C15.  A sample > IDLE_RESET_TIME with has_reset false sends NotifyReset *)
(* and then UpdateTime(0), and sets has_reset.                             *)
(***************************************************************************)
\* C15: an iteration whose sample is > IDLE_RESET_TIME while has_reset is
\* false sends exactly NotifyReset and then UpdateTime(0), nothing else, and
\* ends with has_reset true; so every NotifyReset the monitor sends is
\* followed at once by UpdateTime(0) (while the monitor stands between the
\* two sends, the NotifyReset is the last event and UpdateTime(0) is next).
C15_ResetPairInOrder ==
    /\ TickDone /\ IsReset(sample) /\ ~pre.has_reset =>
           out = <<NotifyReset, UpdateTime(0)>> /\ has_reset
    /\ \A i \in DOMAIN out :
           out[i] = NotifyReset =>
               IF i < Len(out) THEN out[i + 1] = UpdateTime(0)
               ELSE pc = "l41" /\ ~has_reset
    /\ pc \in {"l40", "l41"} => IsReset(sample) /\ ~has_reset

\* the pair was sent in a session that was already past its break, at a
\* time when start.elapsed() was far from zero
C15_Witness ==
    /\ TickDone /\ IsReset(sample) /\ ~pre.has_reset /\ has_reset
    /\ out = <<NotifyReset, UpdateTime(0)>>
    /\ pre.has_break /\ pre.now - pre.start >= BREAK_TIME

(***************************************************************************)
(* C16.  Stated: with active samples only, NotifyBreak is sent in the      *)
(* first iteration where now - start >= BREAK_TIME, right after that       *)
(* iteration's UpdateTime, whose value is >= BREAK_TIME; the next active   *)
(* iteration sends an UpdateTime only.                                     *)
(***************************************************************************)
\* with active samples only: the iteration in which the clock first reads
\* start + BREAK_TIME or more ends with has_break set, and an iteration that
\* began with has_break set sends one UpdateTime and nothing else
BreakOnFirstReach ==
    /\ TickDone /\ hist.all_active /\ hist.reached => has_break
    /\ TickDone /\ hist.all_active /\ pre.has_break =>
           Len(out) = 1 /\ out[1].kind = "UpdateTime"

\* C16 as stated: with active samples only from startup, NotifyBreak is sent
\* in the first iteration where now - start >= BREAK_TIME, as the second and
\* last event of that iteration, right after an UpdateTime whose value is
\* >= BREAK_TIME; the following active iteration sends only an UpdateTime.
C16_BreakAfterUpdateAtThreshold ==
    /\ BreakOnFirstReach
    /\ TickDone /\ hist.all_active /\ Count("NotifyBreak", out) > 0 =>
           /\ ~pre.has_break
           /\ Len(out) = 2 /\ out[2] = NotifyBreak
           /\ out[1].kind = "UpdateTime" /\ out[1].elapsed >= BREAK_TIME

\* C16: with active samples only from startup, NotifyBreak is sent in the
\* first iteration where the test of main.rs:54 reads now - start >=
\* BREAK_TIME, as the second and last event of that iteration, right after
\* its UpdateTime; the UpdateTime carries the earlier reading of main.rs:53,
\* which is at most the reading tested and at least the elapsed time when
\* the iteration began plus the sleep, and may be below BREAK_TIME; the
\* following active iteration sends only an UpdateTime.
C16_BreakAfterUpdateOfSameTick ==
    /\ BreakOnFirstReach
    /\ TickDone /\ hist.all_active /\ Count("NotifyBreak", out) > 0 =>
           /\ ~pre.has_break
           /\ Len(out) = 2 /\ out[2] = NotifyBreak
           /\ out[1].kind = "UpdateTime"
           /\ out[1].elapsed <= now - start /\ now - start >= BREAK_TIME
           /\ out[1].elapsed >= pre.now - pre.start + SLEEP_TIME

\* the clock crossed start + BREAK_TIME between main.rs:53 and main.rs:54:
\* NotifyBreak follows an UpdateTime one second short of BREAK_TIME
C16_Witness ==
    /\ TickDone /\ hist.all_active /\ has_break
    /\ out = <<UpdateTime(BREAK_TIME - 1), NotifyBreak>>

(***************************************************************************)
(* C20.  While has_reset is true the monitor sends nothing.                *)
(***************************************************************************)
\* C20: an iteration that begins with has_reset true and whose probe result
\* is not a sample <= IDLE_PAUSE_TIME (a sample > IDLE_RESET_TIME, a sample
\* in the band, or a failure) sends nothing and leaves has_reset true; while
\* has_reset is true the only events of the current iteration are the
\* NotifyReset, UpdateTime(0) pair that set it; and a NotifyReset is sent
\* only if an iteration with a sample <= IDLE_PAUSE_TIME, which sends an
\* UpdateTime, came after the previous NotifyReset.
C20_SilentWhileReset ==
    /\ TickDone /\ pre.has_reset /\ ~IsActive(sample) => out = <<>> /\ has_reset
    /\ has_reset => IF pre.has_reset THEN out = <<>>
                    ELSE out = <<NotifyReset, UpdateTime(0)>>
    /\ pc = "l40" => ~hist.notified
    /\ pc = "l54" => Len(out) = 1 /\ out[1].kind = "UpdateTime" /\ ~hist.notified

\* after the pair: a sample in the band, a failed probe and a further sample
\* > IDLE_RESET_TIME, all silent
C20_Witness ==
    /\ TickDone /\ has_reset /\ pre.has_reset /\ out = <<>>
    /\ IsReset(sample) /\ pre.hist.fails = 1
    /\ pre.hist.last_ok = IDLE_PAUSE_TIME + 1 /\ hist.notified

(***************************************************************************)
(* C17.  The consumer never blocks the producer.                           *)
(***************************************************************************)
\* C17: in every reachable state of the three threads in which the relay
\* thread still owns the receiver and the monitor has iterations left, a
\* step of monitor_idle_time is enabled, whatever the channels hold and
\* wherever the relay thread and the UI thread stand: the monitor never
\* waits for the consumer.
C17_MonitorNeverBlocked ==
    ReceiverAlive /\ (pc = "l36" => ticks < ShutTicks) => ENABLED MonitorStep

\* the monitor ran to the end of its iterations while the relay thread never
\* received anything: every event sent is still in the channel
C17_Witness ==
    /\ TickDone /\ ticks = ShutTicks /\ ReceiverAlive
    /\ Len(chan) >= 3 /\ chan = sent
    /\ relay_pc = "l198" /\ relay_event = NoSample /\ handled = <<>>

(***************************************************************************)
(* C18.  A failed send ends the sending thread at that send.               *)
(***************************************************************************)
\* the monitor thread has panicked
Panicked == pc \in {"panic40", "panic41", "panic53", "panic56"}

\* C18: a send of monitor_idle_time fails only with the receiver gone; the
\* thread then stands at that send for ever, with what it had sent in the
\* iteration before it and nothing after, and with the flag the send was
\* guarding not set (has_reset for main.rs:40-41, has_break for main.rs:56);
\* a flag set during an iteration means that its sends succeeded; nothing is
\* sent and no monitor state changes once the thread has panicked.  The
\* relay thread likewise ends at its failed send.
C18_FailedSendIsFatal ==
    /\ [](/\ Panicked => ~ReceiverAlive
          /\ pc = "panic40" => ~has_reset /\ out = <<>>
          /\ pc = "panic41" => ~has_reset /\ out = <<NotifyReset>>
          /\ pc = "panic53" => ~has_reset /\ out = <<>>
          /\ pc = "panic56" =>
                 ~has_break /\ Len(out) = 1 /\ out[1].kind = "UpdateTime"
          /\ has_reset /\ ~pre.has_reset => out = <<NotifyReset, UpdateTime(0)>>
          /\ has_break /\ ~pre.has_break => out[Len(out)] = NotifyBreak
          /\ Len(out) <= Len(sent)
          /\ \A i \in DOMAIN out : sent[Len(sent) - Len(out) + i] = out[i]
          /\ relay_pc = "panicked" => ~UiAlive)
    /\ [][Panicked => UNCHANGED <<monVars, sent>>]_vars
    /\ [][relay_pc = "panicked" => UNCHANGED <<relay_pc, chan, ui_chan, notices>>]_vars

\* the receiver went away between the two sends of the reset arm: the
\* NotifyReset is the last event sent and has_reset was never set
C18_Witness ==
    /\ pc = "panic41" /\ ~has_reset /\ out = <<NotifyReset>>
    /\ sent[Len(sent)] = NotifyReset /\ ~ReceiverAlive

(***************************************************************************)
(* C19.  Every event sent is eventually handled by on_timer_tick.          *)
(***************************************************************************)
\* C19: under fair scheduling of the relay thread and of the UI thread's
\* notice dispatch, the i-th event monitor_idle_time sends is eventually the
\* i-th event on_timer_tick handles, for as long as the UI thread dispatches
\* (the window is not closed); while it does, an event is in the UI channel
\* only if a notice is pending, the relay is about to raise one, or
\* on_timer_tick is draining; and an on_timer_tick run that finds the
\* channel empty handles nothing.  (sent and handled only grow, and the
\* handled events are a prefix of the sent ones, so "the i-th event is not
\* sent and unhandled for ever" says that it is handled in the end.)
C19_EverySentEventIsHandled ==
    /\ \A i \in 1..MaxEvents :
           []<>(Len(sent) >= i => Len(handled) >= i \/ ~UiAlive)
    /\ [](UiAlive /\ ui_chan # <<>> =>
              notices > 0 \/ relay_pc = "l201" \/ ui_pc = "drain")
    /\ [][ui_pc = "drain" /\ ui_chan = <<>> => handled' = handled]_vars

\* everything sent has been handled, and on_timer_tick, run for a further
\* notice, stands before the try_recv that finds the channel empty
C19_Witness ==
    /\ UiAlive /\ Len(sent) >= 3 /\ handled = sent
    /\ ui_pc = "drain" /\ ui_chan = <<>> /\ chan = <<>> /\ relay_pc = "l198"

====
